---- MODULE Spec2Model ----
(***************************************************************************)
(* A model of the media-import add-on: the settings module                 *)
(* (src/mediaimport-2/src/settings.py) and the import run doMediaImport    *)
(* (src/mediaimport-2/__init__.py).                                        *)
(*                                                                         *)
(* Python strings are TLA+ strings; Len, \o, Head, Tail and SubSeq work on *)
(* them character by character.  File and folder names are free of "/"    *)
(* and of line breaks.                                                     *)
(***************************************************************************)
EXTENDS Integers, Sequences, FiniteSets, TLC

VARIABLES
    pc,               \* position of doMediaImport
    settings,         \* the global settings dictionary (key -> value)
    transientDoc,     \* user_data/transient_settings.json
    userDoc,          \* the add-on configuration kept by Anki's add-on manager
    saved,            \* history: the dictionary as it was at the last saveSettings
    tree,             \* the directory tree under the chosen folder
    recursive,        \* dialog result: import subfolders
    fieldList,        \* dialog result: <<field, action, special>> rows
    file_pairs_used,  \* some row uses Media_2
    walk,             \* os.walk: folders still to be yielded, in pre-order
    root,             \* folder being processed (segments below the chosen folder)
    files,            \* the list the card creation loop enumerates
    file_pair_index,  \* primary file name -> secondary file name, insertion ordered
    i,                \* number of loop iterations done in this folder
    newCount,         \* notes created
    failure,          \* addNote reported failure
    progressMax,      \* mw.progress.start(max=...)
    progressValue,    \* last value given to mw.progress.update
    media,            \* history: mw.col.media.add_file requests, in order
    notes,            \* history: notes the collection accepted, in order
    addRequests,      \* history: number of mw.col.addNote requests
    attempted         \* history: number of files the card creation loop visited

vars == <<pc, settings, transientDoc, userDoc, saved, tree, recursive, fieldList,
          file_pairs_used, walk, root, files, file_pair_index, i, newCount,
          failure, progressMax, progressValue, media, notes, addRequests,
          attempted>>

settingsVars == <<settings, transientDoc, userDoc, saved>>

runVars == <<tree, recursive, fieldList, file_pairs_used, walk, root, files,
             file_pair_index, i, newCount, failure, progressMax, progressValue,
             media, notes, addRequests, attempted>>

-----------------------------------------------------------------------------
(* Bounds of the model *)

\* longest directory listing of the generated one-folder trees
MaxFiles == 3

-----------------------------------------------------------------------------
(* Strings *)

EmptyDict == [k \in {} |-> ""]

UpperCase == "ABCDEFGHIJKLMNOPQRSTUVWXYZ"
LowerCase == "abcdefghijklmnopqrstuvwxyz"

CharAt(s, k) == SubSeq(s, k, k)

\* str.lower() on one character
LowerChar(c) ==
    IF \E k \in 1..Len(UpperCase) : CharAt(UpperCase, k) = c
    THEN CharAt(LowerCase, CHOOSE k \in 1..Len(UpperCase) : CharAt(UpperCase, k) = c)
    ELSE c

RECURSIVE Lower(_)
Lower(s) == IF s = "" THEN "" ELSE LowerChar(Head(s)) \o Lower(Tail(s))

\* str.replace(old, new) for a one-character old
RECURSIVE Replace(_, _, _)
Replace(s, old, new) ==
    IF s = "" THEN ""
    ELSE (IF Head(s) = old THEN new ELSE Head(s)) \o Replace(Tail(s), old, new)

\* str.rfind(c) + 1: the last position of character c, 0 when absent
RFind(s, c) ==
    LET hits == {k \in 1..Len(s) : CharAt(s, k) = c}
    IN  IF hits = {} THEN 0 ELSE CHOOSE k \in hits : \A m \in hits : m <= k

EndsWith(s, t) ==
    /\ Len(s) >= Len(t)
    /\ SubSeq(s, Len(s) - Len(t) + 1, Len(s)) = t

\* os.path.splitext on a name without directory part: split at the last dot,
\* unless only dots precede it
SplitExt(p) ==
    LET dot == RFind(p, ".")
    IN  IF dot > 0 /\ \E k \in 1..(dot - 1) : CharAt(p, k) # "."
        THEN <<SubSeq(p, 1, dot - 1), SubSeq(p, dot, Len(p))>>
        ELSE <<p, "">>

\* s[1:]
DropFirst(s) == IF s = "" THEN "" ELSE Tail(s)

Digits == "0123456789"

\* str(n) for n >= 0
RECURSIVE Str(_)
Str(n) ==
    IF n < 10 THEN CharAt(Digits, n + 1)
    ELSE Str(n \div 10) \o CharAt(Digits, (n % 10) + 1)

\* sep.join(parts)
RECURSIVE Join(_, _)
Join(sep, parts) ==
    IF parts = <<>> THEN ""
    ELSE IF Len(parts) = 1 THEN parts[1]
    ELSE parts[1] \o sep \o Join(sep, Tail(parts))

\* s.split(sep) for a one-character sep
RECURSIVE Split(_, _)
Split(s, sep) ==
    LET hits == {k \in 1..Len(s) : CharAt(s, k) = sep}
    IN  IF hits = {} THEN <<s>>
        ELSE LET k == CHOOSE h \in hits : \A m \in hits : h <= m
             IN  <<SubSeq(s, 1, k - 1)>> \o Split(SubSeq(s, k + 1, Len(s)), sep)

\* list.remove(x): drops the first element equal to x
RECURSIVE RemoveFirst(_, _)
RemoveFirst(list, x) ==
    IF list = <<>> THEN <<>>
    ELSE IF Head(list) = x THEN Tail(list)
    ELSE <<Head(list)>> \o RemoveFirst(Tail(list), x)

Range(seq) == {seq[k] : k \in 1..Len(seq)}

-----------------------------------------------------------------------------
(* Media classification *)

\* the editor's media types (a sample of aqt.editor.audio and aqt.editor.pics)
AUDIO == {"mp3"}
IMAGE == {"jpg", "png"}

\* mediaName, ext = os.path.splitext(fileName)
MediaName(fileName) == SplitExt(fileName)[1]

\* ext = ext[1:].lower()
Ext(fileName) == Lower(DropFirst(SplitExt(fileName)[2]))

\* not (ext is None or ext not in AUDIO + IMAGE)
IsMedia(fileName) == Ext(fileName) \in (AUDIO \cup IMAGE)

-----------------------------------------------------------------------------
(* Indexing the primary and secondary files of one folder *)

\* file_ending_index: media name -> file name; a later file with the same
\* media name overwrites the earlier entry
RECURSIVE FileEndingIndex(_)
FileEndingIndex(listing) ==
    IF listing = <<>> THEN EmptyDict
    ELSE LET fileName == listing[Len(listing)]
             before   == FileEndingIndex(SubSeq(listing, 1, Len(listing) - 1))
         IN  IF IsMedia(fileName)
             THEN (MediaName(fileName) :> fileName) @@ before
             ELSE before

\* re.search(f".{re.escape(file_pair_suffix)}$", mediaName, re.MULTILINE):
\* one character, then the suffix, then the end of the name
IsSecondaryName(mediaName, suffix) ==
    /\ Len(mediaName) >= Len(suffix) + 1
    /\ EndsWith(mediaName, suffix)

\* the media names of the listing's media files, in listing order
RECURSIVE MediaNames(_)
MediaNames(listing) ==
    IF listing = <<>> THEN <<>>
    ELSE (IF IsMedia(Head(listing)) THEN <<MediaName(Head(listing))>> ELSE <<>>)
         \o MediaNames(Tail(listing))

\* primary_media: the names that do not match the suffix pattern
PrimaryMedia(listing, suffix) ==
    LET trivial(n) == ~IsSecondaryName(n, suffix)
    IN  SelectSeq(MediaNames(listing), trivial)

\* secondary_media: the names that match the suffix pattern
SecondaryMedia(listing, suffix) ==
    LET candidate(n) == IsSecondaryName(n, suffix)
    IN  SelectSeq(MediaNames(listing), candidate)

\* the names left in listing order
ListingOrder(names) == names

\* list.sort(key=len): stable, ascending length
RECURSIVE SortByLen(_)
SortByLen(names) ==
    IF names = <<>> THEN <<>>
    ELSE LET last   == names[Len(names)]
             sorted == SortByLen(SubSeq(names, 1, Len(names) - 1))
             notLonger(n) == Len(n) <= Len(last)
             longer(n)    == Len(n) > Len(last)
         IN  SelectSeq(sorted, notLonger) \o <<last>> \o SelectSeq(sorted, longer)

\* file_pair_index[primary] = secondary on an insertion-ordered dict
PutPair(index, primary, secondary) ==
    IF \E k \in 1..Len(index) : index[k][1] = primary
    THEN [k \in 1..Len(index) |->
             IF index[k][1] = primary THEN <<primary, secondary>> ELSE index[k]]
    ELSE Append(index, <<primary, secondary>>)

\* the state of the two matching loops; error is the KeyError of a lookup of
\* file_ending_index[pf + file_pair_suffix] that finds no entry
NoPairs == [index |-> <<>>, matched |-> {}, error |-> FALSE]

\* the first matching loop without its last line: the matched secondary names
\* are not recorded
RECURSIVE MatchPrimariesUnrecorded(_, _, _, _)
MatchPrimariesUnrecorded(names, fei, suffix, st) ==
    IF names = <<>> \/ st.error THEN st
    ELSE LET pf == Head(names)
         IN  IF (pf \o suffix) \notin DOMAIN fei
             THEN [st EXCEPT !.error = TRUE]
             ELSE MatchPrimariesUnrecorded(Tail(names), fei, suffix,
                      [index   |-> PutPair(st.index, fei[pf], fei[pf \o suffix]),
                       matched |-> st.matched,
                       error   |-> FALSE])

\* for pf in primary_media: match every trivial primary with its secondary
RECURSIVE MatchPrimaries(_, _, _, _)
MatchPrimaries(names, fei, suffix, st) ==
    IF names = <<>> \/ st.error THEN st
    ELSE LET pf == Head(names)
         IN  IF (pf \o suffix) \notin DOMAIN fei
             THEN [st EXCEPT !.error = TRUE]
             ELSE MatchPrimaries(Tail(names), fei, suffix,
                      [index   |-> PutPair(st.index, fei[pf], fei[pf \o suffix]),
                       matched |-> st.matched \cup {pf \o suffix},
                       error   |-> FALSE])

\* for pf in secondary_media: match the still unmatched secondary names
RECURSIVE MatchSecondaries(_, _, _, _)
MatchSecondaries(names, fei, suffix, st) ==
    IF names = <<>> \/ st.error THEN st
    ELSE LET pf == Head(names)
         IN  IF pf \in st.matched
             THEN MatchSecondaries(Tail(names), fei, suffix, st)
             ELSE IF (pf \o suffix) \notin DOMAIN fei
             THEN [st EXCEPT !.error = TRUE]
             ELSE MatchSecondaries(Tail(names), fei, suffix,
                      [index   |-> PutPair(st.index, fei[pf], fei[pf \o suffix]),
                       matched |-> st.matched \cup {pf \o suffix},
                       error   |-> FALSE])

\* the indexing block with a lookup that fails ignored: the pairs found up to
\* it are kept and the folder is processed
IndexFolderSkipping(listing, suffix) ==
    LET fei   == FileEndingIndex(listing)
        first == MatchPrimaries(PrimaryMedia(listing, suffix), fei, suffix, NoPairs)
        st    == MatchSecondaries(SortByLen(SecondaryMedia(listing, suffix)), fei,
                                  suffix, first)
    IN  [st EXCEPT !.error = FALSE]

\* the indexing block of one folder (if file_pairs_used: ...)
IndexFolder(listing, suffix) ==
    LET fei   == FileEndingIndex(listing)
        first == MatchPrimaries(PrimaryMedia(listing, suffix), fei, suffix, NoPairs)
    IN  MatchSecondaries(SortByLen(SecondaryMedia(listing, suffix)), fei, suffix, first)

\* files = list(file_pair_index.keys())
Keys(index) == [k \in 1..Len(index) |-> index[k][1]]

\* file_pair_index[fileName]
Lookup(index, key) ==
    index[CHOOSE k \in 1..Len(index) : index[k][1] = key][2]

-----------------------------------------------------------------------------
(* The settings module *)

\* dataclasses.asdict(TransientSettings()); "~" stands for os.path.expanduser("~")
DefaultTransientSettings ==
    [loadFolder |-> "~", includeSubfolders |-> TRUE, fieldSettings |-> EmptyDict]

\* dataclasses.asdict(DefaultSettings())
DefaultUserSettings ==
    [secondMediaSuffix |-> "_2", showExtensionActions |-> FALSE]

\* userSettings = mw.addonManager.getConfig(...): the configuration the add-on
\* manager holds for the add-on; after writeConfig(conf) it holds conf
GetConfig(udoc) == udoc

\* json.load of the transient settings file raises on a malformed document
LoadRaises(tdoc) == tdoc.exists /\ ~tdoc.wellFormed

\* transientSettings = {} unless the file exists, then json.load(file)
LoadTransient(tdoc) == IF tdoc.exists THEN tdoc.doc ELSE EmptyDict

\* the merge with the defaults unpacked last, so that they win
MergedDefaultsLast(tdoc, udoc) ==
    DefaultUserSettings @@ DefaultTransientSettings
        @@ GetConfig(udoc) @@ LoadTransient(tdoc)

\* {**defaultTransientSettings, **defaultUserSettings, **transientSettings,
\*  **userSettings}: a later dictionary wins
MergedSettings(tdoc, udoc) ==
    GetConfig(udoc) @@ LoadTransient(tdoc) @@ DefaultUserSettings
        @@ DefaultTransientSettings

\* initializeSettings(): every merged key is stored into the global dictionary,
\* whose other keys stay
InitializeSettings(dict, tdoc, udoc) == MergedSettings(tdoc, udoc) @@ dict

\* userSettings = {key: settings[key] for key in defaultSettings.keys()},
\* handed to mw.addonManager.writeConfig
SavedUserDoc(dict) ==
    [key \in DOMAIN DefaultUserSettings |-> dict[key]]

\* transientSettings = the other keys, written by json.dump (a dictionary of
\* strings, booleans and string-keyed dictionaries is stored as it is)
SavedTransientDoc(dict) ==
    [exists |-> TRUE, wellFormed |-> TRUE,
     doc |-> [key \in (DOMAIN dict) \ (DOMAIN DefaultUserSettings) |-> dict[key]]]

-----------------------------------------------------------------------------
(* Field mappings *)

\* class Actions
Actions_nothing                  == ""
Actions_media                    == "Media"
Actions_media_2                  == "Media_2"
Actions_file_name                == "File Name"
Actions_file_name_full           == "File Name (full)"
Actions_extension                == "Extension"
Actions_extension_case_sensitive == "Extension (case-sensitive)"
Actions_sequence                 == "Sequence"
Actions_folder_tags_individual   == "Subfolder tags (individual)"
Actions_folder_tags_hierarchical == "Subfolder tag (hierarchical)"

\* os.path.join(root, fileName): the folder below the chosen one, and the name
FilePath(folder, fileName) == [dir |-> folder, name |-> fileName]

\* mw.col.media.add_file returns the name the media collection stored the file
\* under: the file's own name
AddFile(filePath) == filePath.name

\* os.path.relpath(root, path), with os.sep = "/"
RelPath(folder) == IF folder = <<>> THEN "." ELSE Join("/", folder)

\* data = relative_path.split(os.sep); if "." in data: data.remove(".")
FolderTags(folder) ==
    LET data == Split(RelPath(folder), "/")
    IN  IF "." \in Range(data) THEN RemoveFirst(data, ".") ELSE data

\* the markup of the Media and Media_2 actions, chosen by the file's ext
MediaMarkup(ext, internalName) ==
    IF ext \in AUDIO THEN [kind |-> "str", str |-> "[sound:" \o internalName \o "]", list |-> <<>>]
    ELSE IF ext \in IMAGE THEN [kind |-> "str", str |-> "<img src=\"" \o internalName \o "\">", list |-> <<>>]
    ELSE [kind |-> "skip", str |-> "", list |-> <<>>]

StrData(str) == [kind |-> "str", str |-> str, list |-> <<>>]
ListData(list) == [kind |-> "list", str |-> "", list |-> list]

\* data = os.path.splitext(mediaName)[1][1:]
ExtensionCaseSensitive(c) == DropFirst(SplitExt(c.mediaName)[2])

\* the markup of the secondary file chosen by the secondary file's own kind
SecondMediaMarkupByOwnKind(c) ==
    MediaMarkup(Ext(c.internalFileName_2), c.internalFileName_2)

\* elif action == Actions.media_2: the branch tests ext, the extension of
\* fileName, and formats internalFileName_2
SecondMediaMarkup(c) == MediaMarkup(c.ext, c.internalFileName_2)

\* the if/elif chain over the action of one row; kind "skip" is continue
FieldData(action, c) ==
    IF action = Actions_nothing THEN [kind |-> "skip", str |-> "", list |-> <<>>]
    ELSE IF action = Actions_media THEN MediaMarkup(c.ext, c.internalFileName)
    ELSE IF action = Actions_media_2 THEN SecondMediaMarkup(c)
    ELSE IF action = Actions_file_name THEN StrData(c.mediaName)
    ELSE IF action = Actions_file_name_full THEN StrData(c.fileName)
    ELSE IF action = Actions_extension THEN StrData(c.ext)
    ELSE IF action = Actions_extension_case_sensitive
        THEN StrData(ExtensionCaseSensitive(c))
    ELSE IF action = Actions_sequence THEN StrData(Str(c.i))
    ELSE IF action = Actions_folder_tags_individual THEN ListData(FolderTags(c.root))
    ELSE IF action = Actions_folder_tags_hierarchical
        THEN StrData(Join("::", FolderTags(c.root)))
    ELSE [kind |-> "skip", str |-> "", list |-> <<>>]

\* the tags appended as they are
AppendTagsUnchanged(tags, data) == tags \o data

\* for tag in data: note.tags.append(tag.replace(" ", "_"))
AppendTags(tags, data) ==
    tags \o [k \in 1..Len(data) |-> Replace(data[k], " ", "_")]

\* the store of one row's data into the note
StoreData(note, field, special, data) ==
    IF data.kind = "skip" THEN note
    ELSE IF special /\ field = "Tags"
    THEN [note EXCEPT !.tags =
            AppendTags(@, IF data.kind = "list" THEN data.list ELSE <<data.str>>)]
    ELSE [note EXCEPT !.fields[field] =
            IF data.kind = "list" THEN Join(" ", data.list) ELSE data.str]

\* for field, action, special in fieldList: ...
RECURSIVE PopulateNote(_, _, _)
PopulateNote(note, rows, c) ==
    IF rows = <<>> THEN note
    ELSE PopulateNote(
            StoreData(note, rows[1][1], rows[1][3], FieldData(rows[1][2], c)),
            Tail(rows), c)

\* notes.Note(mw.col, model): every field of the note type empty, no tags
NewNote(rows) ==
    [fields |-> [f \in {rows[k][1] : k \in {r \in 1..Len(rows) : ~rows[r][3]}} |-> ""],
     tags   |-> <<>>]

\* file_pairs_used: some row maps Media_2
FilePairsUsed(rows) == \E k \in 1..Len(rows) : rows[k][2] = Actions_media_2

-----------------------------------------------------------------------------
(* Inputs: directory trees, dialog results, persisted documents *)

Folder(dirs, listing) == [dirs |-> dirs, files |-> listing]

\* the names the generated listings draw from
FilePool ==
    {"image.jpg", "image.png", "image_2.jpg", "image_2_2.png",
     "clip.mp3", "clip_2.mp3", "Image.JPG", "notes.txt"}

\* os.walk lists a folder's files in no particular order and without repeats
Listings ==
    UNION {{l \in [1..n -> FilePool] : \A j, k \in 1..n : j # k => l[j] # l[k]}
           : n \in 0..MaxFiles}

OneFolderTrees == {(<<>> :> Folder(<<>>, l)) : l \in Listings}

ScenarioTree ==
    (<<>> :> Folder(<<"a", "b">>, <<>>))
    @@ (<<"a">> :> Folder(<<>>, <<"img1.jpg", "img1_2.png">>))
    @@ (<<"b">> :> Folder(<<>>, <<"clip.mp3">>))

DeepTree ==
    (<<>> :> Folder(<<"f1">>, <<"README", "Image.JPG", "notes.txt">>))
    @@ (<<"f1">> :> Folder(<<"f2">>, <<"notes.txt", "clip.mp3", "image.png">>))
    @@ (<<"f1", "f2">> :> Folder(<<"f3">>, <<>>))
    @@ (<<"f1", "f2", "f3">> :> Folder(<<>>, <<"a.b.JPG", "my clip.mp3">>))

PairedTree ==
    (<<>> :> Folder(<<"my tag", "x">>, <<"image.jpg", "notes.txt", "image_2.jpg">>))
    @@ (<<"my tag">> :> Folder(<<>>, <<"my clip_2.mp3", "img1_2.mp3", "my clip.mp3", "img1.jpg">>))
    @@ (<<"x">> :> Folder(<<>>, <<"image_2_2.png", "image_2.jpg">>))

ChainedTree ==
    (<<>> :> Folder(<<>>, <<"image_2_2_2.jpg", "image_2_2.png", "image.jpg", "image_2.jpg">>))

BrokenTree ==
    (<<>> :> Folder(<<"a", "b", "c">>, <<>>))
    @@ (<<"a">> :> Folder(<<>>, <<"image_2_2.png", "image_2.jpg", "b_2_2.jpg",
                                  "a_2_2.jpg", "b_2.jpg", "a_2.jpg">>))
    @@ (<<"b">> :> Folder(<<>>, <<"clip.mp3">>))
    @@ (<<"c">> :> Folder(<<>>, <<"image.jpg", "image_2.jpg">>))

Trees == OneFolderTrees \cup {ScenarioTree, DeepTree, PairedTree, ChainedTree, BrokenTree}

\* sum([len(files) for _, _, files in os.walk(path)])
RECURSIVE SumFiles(_, _)
SumFiles(t, folders) ==
    IF folders = {} THEN 0
    ELSE LET f == CHOOSE x \in folders : TRUE
         IN  Len(t[f].files) + SumFiles(t, folders \ {f})

FileCount(t) == SumFiles(t, DOMAIN t)

\* the rows of the dialog: the note type's fields, then the special field Tags
PlainRows ==
    << <<"Front", Actions_media, FALSE>>,
       <<"Back", Actions_file_name, FALSE>>,
       <<"Ext", Actions_extension, FALSE>>,
       <<"ExtExact", Actions_extension_case_sensitive, FALSE>>,
       <<"Seq", Actions_sequence, FALSE>>,
       <<"Tags", Actions_folder_tags_hierarchical, TRUE>> >>

PairRows ==
    << <<"Front", Actions_media, FALSE>>,
       <<"Back", Actions_media_2, FALSE>>,
       <<"Name", Actions_file_name_full, FALSE>>,
       <<"Seq", Actions_sequence, FALSE>>,
       <<"Extra", Actions_nothing, FALSE>>,
       <<"Tags", Actions_file_name, TRUE>> >>

PathRows ==
    << <<"Front", Actions_media, FALSE>>,
       <<"Path", Actions_folder_tags_individual, FALSE>>,
       <<"Seq", Actions_sequence, FALSE>>,
       <<"Tags", Actions_folder_tags_individual, TRUE>> >>

FieldLists == {PlainRows, PairRows, PathRows}

NoteType == "Basic"

\* folders that exist on the machine (os.path.isdir)
ExistingFolders == {"~", "/media"}

\* the folder the user picks in the dialog; tree is what lies under it
ChosenFolder == "/media"

MissingFile == [exists |-> FALSE, wellFormed |-> TRUE, doc |-> EmptyDict]
MalformedFile == [exists |-> TRUE, wellFormed |-> FALSE, doc |-> EmptyDict]
WrittenFile(doc) == [exists |-> TRUE, wellFormed |-> TRUE, doc |-> doc]

\* a stored field configuration of one note type
StoredFieldSettings == (NoteType :> [Front |-> Actions_media, Tags |-> Actions_nothing])

\* the suffix under the key doMediaImport reads
LegacySuffix == [secondImageSuffix |-> "_2"]
LegacyEmptySuffix == [secondImageSuffix |-> ""]

-----------------------------------------------------------------------------
(* The import run *)

\* history of the settings dictionary across saveSettings and initializeSettings
Snapshot(state, dict) == [state |-> state, settings |-> dict]

AfterInitialize(dict) ==
    IF saved.state \in {"saved", "reloaded"} THEN Snapshot("reloaded", saved.settings)
    ELSE IF saved.state \in {"loaded", "again"} THEN Snapshot("again", saved.settings)
    ELSE Snapshot("loaded", dict)

\* ImportSettingsDialog.__init__: a load folder that is no directory is replaced
DialogOpen(dict) ==
    IF dict.loadFolder \in ExistingFolders THEN dict
    ELSE [dict EXCEPT !.loadFolder = "~"]

\* ImportSettingsDialog.accept: the three entries stored before saveSettings()
DialogEdits(dict, rec, rows) ==
    [dict EXCEPT
        !.fieldSettings = (NoteType :> [f \in {rows[k][1] : k \in 1..Len(rows)} |->
                              rows[CHOOSE k \in 1..Len(rows) : rows[k][1] = f][2]]) @@ @,
        !.loadFolder = ChosenFolder,
        !.includeSubfolders = rec]

\* the add-on is loaded and doMediaImport has not been called
Idle ==
    /\ pc = "idle"
    /\ settings = EmptyDict
    /\ saved = Snapshot("none", EmptyDict)
    /\ recursive = FALSE
    /\ fieldList = <<>>
    /\ file_pairs_used = FALSE
    /\ walk = <<>>
    /\ root = <<>>
    /\ files = <<>>
    /\ file_pair_index = <<>>
    /\ i = 0
    /\ newCount = 0
    /\ failure = FALSE
    /\ progressMax = 0
    /\ progressValue = 0
    /\ media = <<>>
    /\ notes = <<>>
    /\ addRequests = 0
    /\ attempted = 0

Init ==
    /\ Idle
    /\ transientDoc \in {MissingFile, MalformedFile,
                         WrittenFile([loadFolder |-> "/gone", includeSubfolders |-> FALSE])}
    /\ userDoc \in {EmptyDict, LegacySuffix, LegacyEmptySuffix}
    /\ tree \in Trees

\* doMediaImport, line 68: initializeSettings(); an exception of json.load
\* leaves doMediaImport
Start ==
    /\ pc = "idle"
    /\ IF LoadRaises(transientDoc)
       THEN /\ pc' = "crashed"
            /\ UNCHANGED <<settings, saved>>
       ELSE /\ pc' = "dialog"
            /\ settings' = InitializeSettings(settings, transientDoc, userDoc)
            /\ saved' = AfterInitialize(settings')
    /\ UNCHANGED <<transientDoc, userDoc>>
    /\ UNCHANGED runVars

\* the dialog is cancelled: if not ok: return
DialogReject ==
    /\ pc = "dialog"
    /\ pc' = "cancelled"
    /\ settings' = DialogOpen(settings)
    /\ saved' = IF settings' = settings THEN saved ELSE Snapshot("edited", settings')
    /\ UNCHANGED <<transientDoc, userDoc>>
    /\ UNCHANGED runVars

\* the dialog is accepted (accept stores and saves the settings), then
\* doMediaImport lines 75-89
DialogAccept(rec, rows) ==
    /\ pc = "dialog"
    /\ pc' = "run"
    /\ settings' = DialogEdits(DialogOpen(settings), rec, rows)
    /\ transientDoc' = SavedTransientDoc(settings')
    /\ userDoc' = SavedUserDoc(settings')
    /\ saved' = Snapshot("saved", settings')
    /\ recursive' = rec
    /\ fieldList' = rows
    /\ file_pairs_used' = FilePairsUsed(rows)
    /\ newCount' = 0
    /\ failure' = FALSE
    /\ progressMax' = FileCount(tree)
    /\ walk' = << <<>> >>
    /\ UNCHANGED <<tree, root, files, file_pair_index, i, progressValue, media,
                   notes, addRequests, attempted>>

\* the walk without the pruning of dirs
WalkAllDirs(rec, dirs) == dirs

\* if not recursive: dirs[:] = []
WalkDirs(rec, dirs) == IF rec THEN dirs ELSE <<>>

\* os.walk, top-down: the subfolders left in dirs are walked next, in order,
\* before the folders that were waiting
WalkNext(rec, pending, t) ==
    LET top  == Head(pending)
        dirs == WalkDirs(rec, t[top].dirs)
    IN  [k \in 1..Len(dirs) |-> Append(top, dirs[k])] \o Tail(pending)

\* settings["secondImageSuffix"] raises KeyError when the key is missing
SuffixMissing(dict) == "secondImageSuffix" \notin DOMAIN dict

\* the loops without their break statements
NeverBreakLoops(failed) == FALSE

\* failure = True; break ... if failure: break
BreakLoops(failed) == failed

\* one iteration of "for root, dirs, files in os.walk(path)", up to the card
\* creation loop: lines 91-157
VisitFolder ==
    /\ pc = "run"
    /\ ~BreakLoops(failure)
    /\ i = Len(files)
    /\ walk # <<>>
    /\ root' = Head(walk)
    /\ walk' = WalkNext(recursive, walk, tree)
    /\ i' = 0
    /\ IF SuffixMissing(settings)
       THEN /\ pc' = "crashed"
            /\ files' = <<>>
            /\ file_pair_index' = <<>>
       ELSE IF file_pairs_used
       THEN LET st == IndexFolder(tree[root'].files, settings["secondImageSuffix"])
            IN  IF st.error
                THEN /\ pc' = "crashed"
                     /\ files' = <<>>
                     /\ file_pair_index' = <<>>
                ELSE /\ pc' = "run"
                     /\ files' = Keys(st.index)
                     /\ file_pair_index' = st.index
       ELSE /\ pc' = "run"
            /\ files' = tree[root'].files
            /\ file_pair_index' = <<>>
    /\ UNCHANGED settingsVars
    /\ UNCHANGED <<tree, recursive, fieldList, file_pairs_used, newCount, failure,
                   progressMax, progressValue, media, notes, addRequests, attempted>>

\* the files handed to mw.col.media.add_file for one file: lines 170-174
StoredFiles(folder, fileName, pairs, index) ==
    <<FilePath(folder, fileName)>>
    \o (IF pairs THEN <<FilePath(folder, Lookup(index, fileName))>> ELSE <<>>)

\* the evaluation context of one file: lines 162-174
Context(folder, fileName, n, pairs, index) ==
    [fileName |-> fileName,
     mediaName |-> MediaName(fileName),
     ext |-> Ext(fileName),
     i |-> n,
     root |-> folder,
     internalFileName |-> AddFile(FilePath(folder, fileName)),
     internalFileName_2 |->
        IF pairs THEN AddFile(FilePath(folder, Lookup(index, fileName))) ELSE ""]

\* one iteration of "for i, fileName in enumerate(files)": lines 159-234
ProcessFile ==
    /\ pc = "run"
    /\ ~BreakLoops(failure)
    /\ i < Len(files)
    /\ attempted' = attempted + 1
    /\ LET fileName == files[i + 1]
       IN  IF ~IsMedia(fileName)
           THEN /\ i' = i + 1
                /\ UNCHANGED <<media, notes, addRequests, newCount, failure,
                               progressValue>>
           ELSE /\ media' = media \o StoredFiles(root, fileName, file_pairs_used,
                                                 file_pair_index)
                /\ addRequests' = addRequests + 1
                /\ \E ok \in BOOLEAN :
                     IF ok
                     THEN /\ notes' = Append(notes,
                                [note |-> PopulateNote(NewNote(fieldList), fieldList,
                                            Context(root, fileName, i, file_pairs_used,
                                                    file_pair_index)),
                                 root |-> root,
                                 fileName |-> fileName])
                          /\ newCount' = newCount + 1
                          /\ progressValue' = newCount'
                          /\ i' = i + 1
                          /\ failure' = FALSE
                     ELSE /\ failure' = TRUE
                          /\ UNCHANGED <<notes, newCount, progressValue, i>>
    /\ UNCHANGED pc
    /\ UNCHANGED settingsVars
    /\ UNCHANGED <<tree, recursive, fieldList, file_pairs_used, walk, root, files,
                   file_pair_index, progressMax>>

\* both loops are left: lines 238-245
Finish ==
    /\ pc = "run"
    /\ failure \/ (i = Len(files) /\ walk = <<>>)
    /\ pc' = IF failure THEN "Aborted" ELSE "Completed"
    /\ UNCHANGED settingsVars
    /\ UNCHANGED runVars

Next ==
    \/ Start
    \/ DialogReject
    \/ \E rec \in BOOLEAN, rows \in FieldLists : DialogAccept(rec, rows)
    \/ VisitFolder
    \/ ProcessFile
    \/ Finish

Spec == Init /\ [][Next]_vars

-----------------------------------------------------------------------------
(* The settings module on its own: any caller may load, edit and save *)

\* the values an entry is edited to
SettingValues(key) ==
    IF key = "loadFolder" THEN ExistingFolders
    ELSE IF key \in {"includeSubfolders", "showExtensionActions"} THEN BOOLEAN
    ELSE IF key = "fieldSettings" THEN {EmptyDict, StoredFieldSettings}
    ELSE {"_2", "-b"}

SettingsInit ==
    /\ Idle
    /\ transientDoc \in
         {MissingFile, MalformedFile, WrittenFile(EmptyDict),
          WrittenFile([loadFolder |-> "/gone", includeSubfolders |-> FALSE]),
          WrittenFile([fieldSettings |-> StoredFieldSettings, secondImageSuffix |-> "_2"])}
    /\ userDoc \in
         {EmptyDict, LegacySuffix, [secondMediaSuffix |-> "-b"],
          [showExtensionActions |-> TRUE, loadFolder |-> "/media"]}
    /\ tree = ScenarioTree

\* initializeSettings(); when json.load raises nothing has been stored yet
CallInitializeSettings ==
    /\ IF LoadRaises(transientDoc)
       THEN UNCHANGED <<settings, saved>>
       ELSE /\ settings' = InitializeSettings(settings, transientDoc, userDoc)
            /\ saved' = AfterInitialize(settings')
    /\ UNCHANGED <<pc, transientDoc, userDoc>>
    /\ UNCHANGED runVars

\* settings[key] = value
EditSetting(key, value) ==
    /\ key \in DOMAIN settings
    /\ value # settings[key]
    /\ settings' = [settings EXCEPT ![key] = value]
    /\ saved' = Snapshot("edited", EmptyDict)
    /\ UNCHANGED <<pc, transientDoc, userDoc>>
    /\ UNCHANGED runVars

\* saveSettings(), once the dictionary has been initialized
CallSaveSettings ==
    /\ DOMAIN DefaultUserSettings \subseteq DOMAIN settings
    /\ transientDoc' = SavedTransientDoc(settings)
    /\ userDoc' = SavedUserDoc(settings)
    /\ saved' = Snapshot("saved", settings)
    /\ UNCHANGED <<pc, settings>>
    /\ UNCHANGED runVars

\* Anki is restarted: the module is loaded again with settings = {}
Restart ==
    /\ settings # EmptyDict
    /\ settings' = EmptyDict
    /\ saved' = IF saved.state \in {"none", "edited"}
                THEN Snapshot("none", EmptyDict)
                ELSE Snapshot("saved", saved.settings)
    /\ UNCHANGED <<pc, transientDoc, userDoc>>
    /\ UNCHANGED runVars

SettingsNext ==
    \/ CallInitializeSettings
    \/ \E key \in DOMAIN settings : \E value \in SettingValues(key) :
          EditSetting(key, value)
    \/ CallSaveSettings
    \/ Restart

SettingsSpec == SettingsInit /\ [][SettingsNext]_vars

-----------------------------------------------------------------------------
(* Properties *)

\* the suffix read at the start of the folder's indexing
PairSuffix == settings["secondImageSuffix"]

\* the folder in root has been indexed with pairing enabled
FolderPaired == pc \in {"run", "Completed", "Aborted"} /\ file_pairs_used /\ root \in DOMAIN tree

\* C1: in a folder indexed with pairing enabled, each primary file has at most
\* one secondary, no file is the secondary of two pairs, and the base name of
\* every primary either does not end with the suffix or was not the secondary
\* of an earlier pair; the card creation loop enumerates exactly the primaries.
C1_PairsWellFormed ==
    FolderPaired =>
        /\ files = Keys(file_pair_index)
        /\ \A j, k \in 1..Len(file_pair_index) :
              j # k => /\ file_pair_index[j][1] # file_pair_index[k][1]
                       /\ file_pair_index[j][2] # file_pair_index[k][2]
        /\ \A k \in 1..Len(file_pair_index) :
              \/ ~EndsWith(MediaName(file_pair_index[k][1]), PairSuffix)
              \/ \A j \in 1..(k - 1) :
                    MediaName(file_pair_index[j][2]) # MediaName(file_pair_index[k][1])

\* C1 witness: a folder gave two pairs, one with a trivial primary and one
\* whose primary is itself named like a secondary
C1_Witness ==
    /\ FolderPaired
    /\ Len(file_pair_index) = 2
    /\ ~EndsWith(MediaName(file_pair_index[1][1]), PairSuffix)
    /\ EndsWith(MediaName(file_pair_index[2][1]), PairSuffix)

\* the run has left the loops or was ended by an exception
RunEnded == pc \in {"Completed", "Aborted", "crashed"}

\* the files of notes[k], as <<folder, file name>>
NoteSources == [k \in 1..Len(notes) |-> <<notes[k].root, notes[k].fileName>>]

\* C2: the recursive run with pairing and suffix "_2" over root/a/img1.jpg,
\* root/a/img1_2.png, root/b/clip.mp3 ends Completed with exactly the two
\* records (img1.jpg, img1_2.png) and (clip.mp3, no secondary).
C2_ScenarioTwoPairs ==
    (/\ RunEnded
     /\ recursive
     /\ file_pairs_used
     /\ tree = ScenarioTree
     /\ ~SuffixMissing(settings)
     /\ PairSuffix = "_2"
     /\ ~failure)
    => /\ pc = "Completed"
       /\ NoteSources = << <<(<<"a">>), "img1.jpg">>, <<(<<"b">>), "clip.mp3">> >>
       /\ media = <<FilePath(<<"a">>, "img1.jpg"), FilePath(<<"a">>, "img1_2.png"),
                    FilePath(<<"b">>, "clip.mp3")>>

\* C3: once addNote has reported failure the run goes to Aborted without a
\* further add_file or addNote request and leaves the created notes and the
\* stored media as they are; the failing file's media has been stored, and
\* newCount is the number of addNote requests that succeeded.
C3_AbortAtOnce ==
    [][/\ failure =>
            /\ pc' = "Aborted"
            /\ UNCHANGED <<media, notes, addRequests, newCount>>
       /\ (~failure /\ failure') =>
            /\ notes' = notes
            /\ newCount' = Len(notes)
            /\ addRequests' = newCount' + 1
            /\ Len(media') > Len(media)
            /\ SubSeq(media', 1, Len(media)) = media
            /\ media'[Len(media) + 1] = FilePath(root, files[i + 1])]_vars

\* C3 witness: a run was aborted after a note had been created, with files or
\* folders still to come
C3_Witness ==
    /\ pc = "Aborted"
    /\ Len(notes) >= 1
    /\ newCount = Len(notes)
    /\ walk # <<>>
    /\ i + 1 < Len(files)

\* C4: the Sequence values of the notes created from one folder are "0", "1",
\* ... in creation order, whatever other files the folder lists.
C4_SequenceFromZero ==
    \A k \in 1..Len(notes) :
        notes[k].note.fields["Seq"] =
            Str(Cardinality({j \in 1..(k - 1) : notes[j].root = notes[k].root}))

\* the action mapped to the special field Tags
TagsAction(rows) ==
    rows[CHOOSE k \in 1..Len(rows) : rows[k][1] = "Tags" /\ rows[k][3]][2]

\* C5: below f1/f2/f3 the hierarchical action adds the one tag "f1::f2::f3" and
\* the individual action the tags f1, f2, f3; in the chosen folder itself both
\* add no tag.
C5_FolderTags ==
    \A k \in 1..Len(notes) :
        /\ TagsAction(fieldList) = Actions_folder_tags_hierarchical =>
              /\ notes[k].root = <<"f1", "f2", "f3">> =>
                    notes[k].note.tags = <<"f1::f2::f3">>
              /\ notes[k].root = <<>> => notes[k].note.tags = <<>>
        /\ TagsAction(fieldList) = Actions_folder_tags_individual =>
              /\ notes[k].root = <<"f1", "f2", "f3">> =>
                    notes[k].note.tags = <<"f1", "f2", "f3">>
              /\ notes[k].root = <<>> => notes[k].note.tags = <<>>

\* what follows the last dot of a file name
WrittenExtension(fileName) ==
    SubSeq(fileName, RFind(fileName, ".") + 1, Len(fileName))

\* C6: Extension is the file's extension in lower case and Extension
\* (case-sensitive) is the extension as the file name writes it.
C6_Extensions ==
    \A k \in 1..Len(notes) :
        "ExtExact" \in DOMAIN notes[k].note.fields =>
            /\ notes[k].note.fields["Ext"] = Lower(WrittenExtension(notes[k].fileName))
            /\ notes[k].note.fields["ExtExact"] = WrittenExtension(notes[k].fileName)

\* C7: the value reported to the progress sink is the number of files the card
\* creation loop has visited, excluded files included.
C7_ProgressPerFile ==
    (pc \in {"run", "Completed"} /\ ~failure) => progressValue = attempted

\* C8: with recursive = false nothing below the chosen folder is visited: every
\* add_file request and every created note is for a file of the chosen folder.
C8_NonRecursive ==
    (pc \in {"run", "Completed", "Aborted", "crashed"} /\ ~recursive) =>
        /\ root = <<>>
        /\ \A k \in 1..Len(walk) : walk[k] = <<>>
        /\ \A k \in 1..Len(media) : media[k].dir = <<>>
        /\ \A k \in 1..Len(notes) : notes[k].root = <<>>

\* C8 witness: a non-recursive run over a tree with media files in subfolders
\* has completed and created a note
C8_Witness ==
    /\ pc = "Completed"
    /\ ~recursive
    /\ tree = DeepTree
    /\ Len(notes) >= 1

\* the compiled-in defaults
CompiledDefaults == DefaultUserSettings @@ DefaultTransientSettings

\* C9: initializeSettings after saveSettings gives every key the value it had
\* when saved, a repeated initializeSettings changes nothing, and a default key
\* that no persisted document holds has its compiled-in default after loading.
C9_RoundTrip ==
    /\ saved.state \in {"reloaded", "again"} => settings = saved.settings
    /\ saved.state \in {"loaded", "reloaded", "again"} =>
          \A key \in DOMAIN CompiledDefaults :
              (key \notin DOMAIN LoadTransient(transientDoc) /\ key \notin DOMAIN userDoc)
                  => settings[key] = CompiledDefaults[key]

\* C9 witness: a dictionary whose entries were edited away from the defaults
\* has been saved and loaded again
C9_Witness ==
    /\ saved.state = "reloaded"
    /\ settings["loadFolder"] = "/media"
    /\ ~settings["includeSubfolders"]
    /\ settings["fieldSettings"] = StoredFieldSettings
    /\ settings["secondMediaSuffix"] = "-b"
    /\ settings["showExtensionActions"]

\* C10: a malformed transient settings file does not end the run: the keys it
\* would have held have their defaults and doMediaImport goes on.
C10_MalformedNotFatal ==
    (pc # "idle" /\ LoadRaises(transientDoc)) =>
        /\ pc # "crashed"
        /\ \A key \in DOMAIN DefaultTransientSettings :
              settings[key] = DefaultTransientSettings[key]

\* tag is text with every space replaced by an underscore
Underscored(tag, text) ==
    /\ Len(tag) = Len(text)
    /\ \A c \in 1..Len(text) :
          CharAt(tag, c) = (IF CharAt(text, c) = " " THEN "_" ELSE CharAt(text, c))

\* C11: a value mapped to the special field Tags is stored as tags: a single
\* string gives one tag, a list one tag per element, in order, each with its
\* spaces replaced by underscores; no stored tag contains a space.
C11_TagsStored ==
    \A k \in 1..Len(notes) :
        LET tags == notes[k].note.tags
        IN  /\ \A t \in 1..Len(tags) : \A c \in 1..Len(tags[t]) : CharAt(tags[t], c) # " "
            /\ TagsAction(fieldList) = Actions_file_name =>
                  /\ Len(tags) = 1
                  /\ Underscored(tags[1], MediaName(notes[k].fileName))
            /\ TagsAction(fieldList) = Actions_folder_tags_hierarchical =>
                  Len(tags) = 1
            /\ TagsAction(fieldList) = Actions_folder_tags_individual =>
                  /\ Len(tags) = Len(notes[k].root)
                  /\ \A t \in 1..Len(tags) : Underscored(tags[t], notes[k].root[t])
            /\ notes[k].root = <<"my tag">> =>
                  (TagsAction(fieldList) # Actions_file_name => tags = <<"my_tag">>)

\* C11 witness: notes were created whose tag values held a space, one from a
\* single string and one from a list
C11_Witness ==
    \/ /\ Len(notes) >= 1
       /\ TagsAction(fieldList) = Actions_file_name
       /\ notes[Len(notes)].fileName = "my clip.mp3"
       /\ notes[Len(notes)].note.tags = <<"my_clip">>
    \/ /\ Len(notes) >= 1
       /\ TagsAction(fieldList) = Actions_folder_tags_individual
       /\ notes[Len(notes)].root = <<"my tag">>
       /\ notes[Len(notes)].note.tags = <<"my_tag">>

\* the place in the listing of the first media file with this base name
FirstPlace(listing, name) ==
    CHOOSE j \in 1..Len(listing) :
        /\ IsMedia(listing[j]) /\ MediaName(listing[j]) = name
        /\ \A h \in 1..(j - 1) : ~(IsMedia(listing[h]) /\ MediaName(listing[h]) = name)

\* C12: with pairing enabled the order of a folder's pairs is determined by
\* its listing: the pairs of trivial primaries come first, in listing order of
\* their base names, then the pairs of candidate secondaries by ascending
\* length of the base name, in listing order among names of equal length.
C12_PairOrder ==
    FolderPaired =>
        \A j, k \in 1..Len(file_pair_index) :
            j < k =>
                LET listing == tree[root].files
                    a  == MediaName(file_pair_index[j][1])
                    b  == MediaName(file_pair_index[k][1])
                    sa == IsSecondaryName(a, PairSuffix)
                    sb == IsSecondaryName(b, PairSuffix)
                    inListingOrder == FirstPlace(listing, a) < FirstPlace(listing, b)
                IN  /\ ~(sa /\ ~sb)
                    /\ (~sa /\ ~sb) => inListingOrder
                    /\ (sa /\ sb) =>
                          \/ Len(a) < Len(b)
                          \/ Len(a) = Len(b) /\ inListingOrder

\* C12 witness: three pairs of the second pass, two of equal name length, of
\* a listing that has the longest names first
C12_Witness ==
    /\ FolderPaired
    /\ tree = BrokenTree /\ root = <<"a">>
    /\ ~SuffixMissing(settings) /\ PairSuffix = "_2"
    /\ file_pair_index = << <<"b_2.jpg", "b_2_2.jpg">>, <<"a_2.jpg", "a_2_2.jpg">>,
                            <<"image_2.jpg", "image_2_2.png">> >>

\* the listing holds a media file whose base name is a trivial primary and no
\* media file whose base name is that name followed by the suffix
UnmatchedPrimary(listing, suffix) ==
    \E j \in 1..Len(listing) :
        /\ IsMedia(listing[j])
        /\ ~IsSecondaryName(MediaName(listing[j]), suffix)
        /\ ~\E h \in 1..Len(listing) :
               /\ IsMedia(listing[h])
               /\ MediaName(listing[h]) = MediaName(listing[j]) \o suffix

\* the next folder of the walk is about to be indexed with pairing enabled
\* and holds a trivial primary without its secondary
AboutToIndexUnmatched ==
    /\ pc = "run" /\ ~failure /\ i = Len(files) /\ walk # <<>>
    /\ file_pairs_used
    /\ ~SuffixMissing(settings)
    /\ UnmatchedPrimary(tree[Head(walk)].files, PairSuffix)

\* C13: with pairing enabled, visiting a folder that holds a trivial primary
\* without its secondary ends the run by the failed lookup: nothing of that
\* folder is stored and no record of it is created, the records and stored
\* files of the earlier folders stay, and the run takes no further step, so
\* no later folder is visited and it ends neither Completed nor Aborted.
C13_MissingSecondaryCrashes ==
    [][ /\ AboutToIndexUnmatched =>
             /\ pc' = "crashed"
             /\ root' = Head(walk)
             /\ UNCHANGED <<media, notes, newCount, addRequests>>
             /\ \A k \in 1..Len(media') : media'[k].dir # root'
             /\ \A k \in 1..Len(notes') : notes'[k].root # root'
        /\ pc = "crashed" => UNCHANGED vars
      ]_vars

\* C13 witness: the run ended in folder b, which holds clip.mp3 alone, after
\* the three records of folder a and with folder c still to visit
C13_Witness ==
    /\ pc = "crashed"
    /\ file_pairs_used
    /\ tree = BrokenTree /\ root = <<"b">>
    /\ UnmatchedPrimary(tree[root].files, PairSuffix)
    /\ Len(notes) = 3
    /\ walk = << <<"c">> >>

\* C14: an unconsumed candidate secondary whose successor is absent is left
\* out and the rest of its folder is processed: with the suffix present, the
\* indexing fails on no folder but one that holds a trivial primary without
\* its secondary, and a folder of image, image_2 and image_2_2 yields exactly
\* the pair (image, image_2).
C14_UnconsumedDropped ==
    (/\ pc \in {"crashed", "Completed", "Aborted"}
     /\ file_pairs_used
     /\ ~SuffixMissing(settings)) =>
        /\ pc = "crashed" => UnmatchedPrimary(tree[root].files, PairSuffix)
        /\ (/\ PairSuffix = "_2"
            /\ Len(tree[root].files) = 3
            /\ Range(tree[root].files) = {"image.jpg", "image_2.jpg", "image_2_2.png"}) =>
                file_pair_index = << <<"image.jpg", "image_2.jpg">> >>

\* C15: after initializeSettings has run with neither persisted document
\* present, the settings hold the pair suffix under the key that the import
\* run reads at the start of a folder's indexing, and its value is "_2".
C15_DefaultSuffix ==
    (/\ pc = "dialog"
     /\ transientDoc = MissingFile
     /\ userDoc = EmptyDict) =>
        /\ ~SuffixMissing(settings)
        /\ PairSuffix = "_2"

\* the fields of the rows that map Media_2 to a field of the note
SecondMediaFields(rows) ==
    {rows[r][1] : r \in {q \in 1..Len(rows) : rows[q][2] = Actions_media_2 /\ ~rows[q][3]}}

\* C16: in the record of every pair, a field mapped to Media_2 holds the media
\* id of the pair's secondary file in the markup of the primary file's kind:
\* [sound:id] for an audio primary, <img src="id"> for an image primary,
\* whatever the kind of the secondary.
C16_SecondMediaByPrimaryKind ==
    file_pairs_used =>
        \A k \in 1..Len(notes) :
            LET primary   == media[2 * k - 1]
                secondary == media[2 * k]
                id        == AddFile(secondary)
            IN  /\ primary = FilePath(notes[k].root, notes[k].fileName)
                /\ secondary.dir = notes[k].root
                /\ \A f \in SecondMediaFields(fieldList) :
                      /\ Ext(primary.name) \in AUDIO =>
                            notes[k].note.fields[f] = "[sound:" \o id \o "]"
                      /\ Ext(primary.name) \in IMAGE =>
                            notes[k].note.fields[f] = "<img src=\"" \o id \o "\">"

\* C16 witness: the record of the image img1.jpg paired with the audio file
\* img1_2.mp3 holds the image markup around the audio file's id
C16_Witness ==
    /\ file_pairs_used
    /\ Len(notes) >= 1
    /\ notes[Len(notes)].fileName = "img1.jpg"
    /\ media[2 * Len(notes)].name = "img1_2.mp3"
    /\ notes[Len(notes)].note.fields["Back"] = "<img src=\"img1_2.mp3\">"

====
